---- MODULE Spec2Model ----
(***************************************************************************)
(* Rubric scoring engine (scoring/scorer.py and its metric providers).     *)
(*                                                                         *)
(* Text is a sequence of one-character strings.  Numbers that Python       *)
(* computes as floats are exact rationals <<n, d>> in lowest terms with    *)
(* d > 0.  A Python dict is a function whose DOMAIN is the set of keys     *)
(* that are present; dict.get(k, default) is Get, dict[k] raises KeyError  *)
(* when k is absent.  An optional value is <<>> (None / the call threw)    *)
(* or <<v>>.                                                               *)
(***************************************************************************)
EXTENDS Integers, Sequences, FiniteSets, TLC

VARIABLES
  pc,                 \* position of the call under way
  err,                \* "none", "KeyError" or "ProviderError"
  transcript,         \* compute_scores argument
  duration_seconds,   \* compute_scores argument: <<>> is None, <<s>> is s seconds
  rubric,             \* compute_scores argument
  text, words, word_count, sentence_count, filler_count,
  total_weight, weighted_score_sum,
  components,         \* results["components"]
  overall_score,      \* results["overall_score"]
  thrown,             \* providers that raised during the call
  args,               \* arguments of a direct call of one scorer
  ret                 \* what that call returned

vars == << pc, err, transcript, duration_seconds, rubric, text, words,
           word_count, sentence_count, filler_count, total_weight,
           weighted_score_sum, components, overall_score, thrown, args, ret >>

-----------------------------------------------------------------------------
(* Bounds of the model *)

MaxWords == 2          \* words in a transcript handed to compute_scores
MaxErrors == 1         \* matches the grammar checker may report
MaxEdits == 1          \* rubric fields that differ from the reference or the empty rubric
MaxRaw == 6            \* _normalize is called directly with raw and max in -MaxRaw/2 .. MaxRaw/2
MaxWordCount == 165    \* word counts handed directly to score_speech_rate
MaxFiller == 14        \* filler counts handed directly to score_filler_words
MaxTotalWords == 15    \* total_words handed directly to score_filler_words
MaxFlowWords == 3      \* words in a text handed directly to score_flow

-----------------------------------------------------------------------------
(* Exact rationals *)

Abs(x) == IF x < 0 THEN -x ELSE x

RECURSIVE GCD(_, _)
GCD(a, b) == IF b = 0 THEN a ELSE GCD(b, a % b)

Rat(n, d) ==
  LET s == IF d < 0 THEN -1 ELSE 1
      g == GCD(Abs(n), Abs(d))
  IN  << (s * n) \div g, (s * d) \div g >>

R(n) == << n, 1 >>
RAdd(a, b) == Rat(a[1] * b[2] + b[1] * a[2], a[2] * b[2])
RSub(a, b) == Rat(a[1] * b[2] - b[1] * a[2], a[2] * b[2])
RMul(a, b) == Rat(a[1] * b[1], a[2] * b[2])
RDiv(a, b) == Rat(a[1] * b[2], a[2] * b[1])
RLeq(a, b) == a[1] * b[2] <= b[1] * a[2]
RLt(a, b) == a[1] * b[2] < b[1] * a[2]
RMin(a, b) == IF RLeq(a, b) THEN a ELSE b
RMax(a, b) == IF RLeq(b, a) THEN a ELSE b

RECURSIVE Pow10(_)
Pow10(k) == IF k = 0 THEN 1 ELSE 10 * Pow10(k - 1)

\* Python round(x, k): nearest multiple of 10^-k, ties to even
Round(x, k) ==
  LET s == RMul(x, R(Pow10(k)))
      q == s[1] \div s[2]
      r == s[1] % s[2]
      m == IF 2 * r < s[2] THEN q
           ELSE IF 2 * r > s[2] THEN q + 1
           ELSE IF q % 2 = 0 THEN q ELSE q + 1
  IN  Rat(m, Pow10(k))

-----------------------------------------------------------------------------
(* Python dicts and optional values *)

EmptyDict == [k \in {} |-> 0]
Get(d, k, default) == IF k \in DOMAIN d THEN d[k] ELSE default
Has(d, k) == k \in DOMAIN d
Put(d, k, v) == [x \in DOMAIN d \cup {k} |-> IF x = k THEN v ELSE d[x]]
Drop(d, k) == [x \in DOMAIN d \ {k} |-> d[x]]

None == << >>
Some(v) == << v >>

-----------------------------------------------------------------------------
(* Strings *)

UpperCase == << "A","B","C","D","E","F","G","H","I","J","K","L","M",
                "N","O","P","Q","R","S","T","U","V","W","X","Y","Z" >>
LowerCase == << "a","b","c","d","e","f","g","h","i","j","k","l","m",
                "n","o","p","q","r","s","t","u","v","w","x","y","z" >>

ToLower == [c \in { UpperCase[i] : i \in 1..26 } |-> LowerCase[CHOOSE i \in 1..26 : UpperCase[i] = c]]

LowerChar(c) == IF c \in DOMAIN ToLower THEN ToLower[c] ELSE c

\* str.lower()
RECURSIVE Lower(_)
Lower(s) == IF s = << >> THEN << >> ELSE << LowerChar(Head(s)) >> \o Lower(Tail(s))

\* str.strip()
Strip(s) ==
  LET keep == { i \in 1..Len(s) : s[i] # " " }
  IN  IF keep = {} THEN << >>
      ELSE LET lo == CHOOSE i \in keep : \A j \in keep : i <= j
               hi == CHOOSE i \in keep : \A j \in keep : j <= i
           IN  SubSeq(s, lo, hi)

\* str.find(sub): 0-based index of the first occurrence, -1 when absent
Find(s, sub) ==
  LET hits == { i \in 0..(Len(s) - Len(sub)) : SubSeq(s, i + 1, i + Len(sub)) = sub }
  IN  IF hits = {} THEN -1 ELSE CHOOSE i \in hits : \A j \in hits : i <= j

\* sub in s
In(sub, s) == Find(s, sub) # -1

\* the whitespace-separated tokens of s, in order
RECURSIVE Split(_)
Split(s) ==
  IF s = << >> THEN << >>
  ELSE IF s[1] = " " THEN Split(Tail(s))
  ELSE LET sp == { i \in 1..Len(s) : s[i] = " " }
           e  == IF sp = {} THEN Len(s) + 1 ELSE CHOOSE i \in sp : \A j \in sp : i <= j
       IN  << SubSeq(s, 1, e - 1) >> \o Split(SubSeq(s, e + 1, Len(s)))

RECURSIVE Join(_)
Join(ws) ==
  IF ws = << >> THEN << >>
  ELSE IF Len(ws) = 1 THEN ws[1]
  ELSE ws[1] \o << " " >> \o Join(Tail(ws))

Range(f) == { f[i] : i \in DOMAIN f }

-----------------------------------------------------------------------------
(* scoring/preprocess.py *)

FILLER_WORDS ==
  << <<"u","m">>,
     <<"u","h">>,
     <<"l","i","k","e">>,
     <<"y","o","u"," ","k","n","o","w">>,
     <<"s","o">>,
     <<"a","c","t","u","a","l","l","y">>,
     <<"b","a","s","i","c","a","l","l","y">>,
     <<"r","i","g","h","t">>,
     <<"i"," ","m","e","a","n">>,
     <<"w","e","l","l">>,
     <<"k","i","n","d","a">>,
     <<"s","o","r","t"," ","o","f">>,
     <<"o","k","a","y">>,
     <<"h","m","m">>,
     <<"a","h">> >>

clean_text(t) == Strip(Lower(t))

\* word_tokenize on text without punctuation: the whitespace-separated tokens
get_word_count(t) == [count |-> Len(Split(t)), words |-> Split(t)]

\* sent_tokenize on text without sentence terminators: one sentence unless empty
get_sentence_count(t) == IF Split(t) = << >> THEN 0 ELSE 1

count_filler_words(ws) ==
  Cardinality({ i \in 1..Len(ws) : ws[i] \in Range(FILLER_WORDS) })

-----------------------------------------------------------------------------
(* scoring/grammar.py, vocabulary.py, sentiment.py, semantic.py            *)
(* The outcome of the external library call is an argument: None when the  *)
(* library raises, Some(v) when it returns v.                              *)

\* score_ratio thresholds shared by the grammar and vocabulary scorers
TenPointScore(ratio) ==
  IF RLeq(Rat(9, 10), ratio) THEN 10
  ELSE IF RLeq(Rat(7, 10), ratio) THEN 8
  ELSE IF RLeq(Rat(5, 10), ratio) THEN 6
  ELSE IF RLeq(Rat(3, 10), ratio) THEN 4
  ELSE 2

\* check: outcome of tool.check(text), the number of matches
grammar_score(check, total_words) ==
  IF check = None THEN [err |-> "ProviderError", score |-> 0, errors |-> 0]
  ELSE LET errors == check[1] IN
    IF total_words = 0 THEN [err |-> "none", score |-> 10, errors |-> 0]
    ELSE LET errors_per_100 == RMul(Rat(errors, total_words), R(100))
             score_ratio == RSub(R(1), RMin(RDiv(errors_per_100, R(10)), R(1)))
         IN  [err |-> "none", score |-> TenPointScore(score_ratio), errors |-> errors]

vocabulary_score(ws) ==
  IF Len(ws) = 0 THEN [score |-> 10, ttr |-> R(1)]
  ELSE LET distinct == Cardinality(Range(ws))
           ttr == Rat(distinct, Len(ws))
       IN  [score |-> TenPointScore(ttr), ttr |-> ttr]

\* pos: outcome of analyzer.polarity_scores(text)['pos'], in tenths
sentiment_score(pos) ==
  IF pos = None THEN [err |-> "ProviderError", score |-> 0, polarity |-> R(0)]
  ELSE LET polarity == Rat(pos[1], 10) IN
    [err |-> "none",
     score |-> IF RLeq(Rat(9, 10), polarity) THEN 15
               ELSE IF RLeq(Rat(7, 10), polarity) THEN 12
               ELSE IF RLeq(Rat(5, 10), polarity) THEN 9
               ELSE IF RLeq(Rat(3, 10), polarity) THEN 6
               ELSE 3,
     polarity |-> polarity]

\* enc: outcome of the embedding model, the average cosine similarity in
\* tenths; sum(scores) / len(scores) raises ZeroDivisionError on no phrases
semantic_similarity(enc, target_phrases) ==
  IF enc = None \/ Len(target_phrases) = 0 THEN None
  ELSE Some(Rat(enc[1], 10))

-----------------------------------------------------------------------------
(* scoring/scorer.py: helpers and criterion scorers *)

\* _normalize without the lower clamp max(0.0, ...)
_normalize_NoFloor(subscore, max_score) ==
  IF RLeq(max_score, R(0)) THEN R(0)
  ELSE RMin(R(1), RDiv(subscore, max_score))

_normalize(subscore, max_score) ==
  IF RLeq(max_score, R(0)) THEN R(0)
  ELSE RMax(R(0), RMin(R(1), RDiv(subscore, max_score)))

\* any(kw in txt for kw in kws)
AnyKeyword(kws, txt) == \E i \in 1..Len(kws) : In(kws[i], txt)

TierKeywords(rules, tier) == Get(Get(rules, tier, EmptyDict), "keywords", << >>)

\* rules[tier]["score"]
TierScore(rules, tier) ==
  IF Has(rules, tier) /\ Has(rules[tier], "score")
  THEN [err |-> "none", score |-> R(rules[tier].score), tier |-> tier]
  ELSE [err |-> "KeyError", score |-> R(0), tier |-> tier]

\* score_salutation that tests the tiers from the lowest to the highest
score_salutation_LowestFirst(t, rubric_salutation) ==
  LET txt == Lower(t)
      rules == Get(rubric_salutation, "rules", EmptyDict)
  IN  IF AnyKeyword(TierKeywords(rules, "normal"), txt) THEN TierScore(rules, "normal")
      ELSE IF AnyKeyword(TierKeywords(rules, "good"), txt) THEN TierScore(rules, "good")
      ELSE IF AnyKeyword(TierKeywords(rules, "excellent"), txt) THEN TierScore(rules, "excellent")
      ELSE [err |-> "none",
            score |-> R(Get(Get(rules, "no_salutation", EmptyDict), "score", 0)),
            tier |-> "no_salutation"]

score_salutation(t, rubric_salutation) ==
  LET txt == Lower(t)
      rules == Get(rubric_salutation, "rules", EmptyDict)
  IN  IF AnyKeyword(TierKeywords(rules, "excellent"), txt) THEN TierScore(rules, "excellent")
      ELSE IF AnyKeyword(TierKeywords(rules, "good"), txt) THEN TierScore(rules, "good")
      ELSE IF AnyKeyword(TierKeywords(rules, "normal"), txt) THEN TierScore(rules, "normal")
      ELSE [err |-> "none",
            score |-> R(Get(Get(rules, "no_salutation", EmptyDict), "score", 0)),
            tier |-> "no_salutation"]

\* a multi-word keyword is searched in the text, a single word in the token set
KeywordMatches(kw, ws, text_lower) ==
  IF In(<< " " >>, kw) THEN In(kw, text_lower) ELSE kw \in Range(ws)

\* score_keyword_presence with the threshold len(mw) / 2 rounded up
score_keyword_presence_Ceil(ws, t, rubric_kw, enc) ==
  LET must_have == Get(rubric_kw, "must_have", EmptyDict)
      good_to_have == Get(rubric_kw, "good_to_have", EmptyDict)
      mw == Get(must_have, "keywords", << >>)
      gw == Get(good_to_have, "keywords", << >>)
      text_lower == Lower(t)
      found_mw == SelectSeq(mw, LAMBDA kw : KeywordMatches(kw, ws, text_lower))
      found_gw == SelectSeq(gw, LAMBDA kw : KeywordMatches(kw, ws, text_lower))
      found == found_mw \o found_gw
      exact == Len(found_mw) * Get(must_have, "score_each", 4)
               + Len(found_gw) * Get(good_to_have, "score_each", 2)
      few == Len(found) < (IF (Len(mw) + 1) \div 2 > 1 THEN (Len(mw) + 1) \div 2 ELSE 1)
      got == semantic_similarity(enc, mw \o gw)
      sim == IF got = None THEN R(0) ELSE got[1]
      bonus == RMul(Rat(1, 2), R(Len(mw) * Get(must_have, "score_each", 4)))
  IN  IF few /\ RLeq(Rat(6, 10), sim)
      THEN [raw_score |-> RAdd(R(exact), bonus),
            found |-> found \o << <<"semantic-match">> >>,
            fallback |-> TRUE]
      ELSE [raw_score |-> R(exact), found |-> found, fallback |-> few]

\* enc: outcome of the embedding model for this call
score_keyword_presence(ws, t, rubric_kw, enc) ==
  LET must_have == Get(rubric_kw, "must_have", EmptyDict)
      good_to_have == Get(rubric_kw, "good_to_have", EmptyDict)
      mw == Get(must_have, "keywords", << >>)
      gw == Get(good_to_have, "keywords", << >>)
      text_lower == Lower(t)
      found_mw == SelectSeq(mw, LAMBDA kw : KeywordMatches(kw, ws, text_lower))
      found_gw == SelectSeq(gw, LAMBDA kw : KeywordMatches(kw, ws, text_lower))
      found == found_mw \o found_gw
      exact == Len(found_mw) * Get(must_have, "score_each", 4)
               + Len(found_gw) * Get(good_to_have, "score_each", 2)
      few == Len(found) < (IF Len(mw) \div 2 > 1 THEN Len(mw) \div 2 ELSE 1)
      got == semantic_similarity(enc, mw \o gw)
      sim == IF got = None THEN R(0) ELSE got[1]
      bonus == RMul(Rat(1, 2), R(Len(mw) * Get(must_have, "score_each", 4)))
  IN  IF few /\ RLeq(Rat(6, 10), sim)
      THEN [raw_score |-> RAdd(R(exact), bonus),
            found |-> found \o << <<"semantic-match">> >>,
            fallback |-> TRUE]
      ELSE [raw_score |-> R(exact), found |-> found, fallback |-> few]

FlowCategories == << "salutation", "basic_details", "optional_details", "closing" >>

indicators ==
  [ salutation |->
      << <<"h","e","l","l","o">>,
         <<"h","i">>,
         <<"g","o","o","d"," ","m","o","r","n","i","n","g">>,
         <<"g","o","o","d"," ","a","f","t","e","r","n","o","o","n">>,
         <<"g","o","o","d"," ","e","v","e","n","i","n","g">>,
         <<"g","o","o","d"," ","d","a","y">>,
         <<"e","x","c","i","t","e","d"," ","t","o"," ","i","n","t","r","o","d","u","c","e">> >>,
    basic_details |->
      << <<"m","y"," ","n","a","m","e"," ","i","s">>,
         <<"i"," ","a","m">>,
         <<"i","'","m">>,
         <<"a","g","e">>,
         <<"y","e","a","r","s"," ","o","l","d">>,
         <<"c","l","a","s","s">>,
         <<"g","r","a","d","e">>,
         <<"s","c","h","o","o","l">>,
         <<"s","t","u","d","y","i","n","g"," ","i","n">>,
         <<"s","t","u","d","e","n","t"," ","o","f">> >>,
    optional_details |->
      << <<"f","a","m","i","l","y">>,
         <<"p","a","r","e","n","t","s">>,
         <<"f","a","t","h","e","r">>,
         <<"m","o","t","h","e","r">>,
         <<"h","o","b","b","y">>,
         <<"h","o","b","b","i","e","s">>,
         <<"i","n","t","e","r","e","s","t">>,
         <<"l","i","k","e"," ","t","o">>,
         <<"a","m","b","i","t","i","o","n">>,
         <<"g","o","a","l">>,
         <<"d","r","e","a","m">>,
         <<"s","t","r","e","n","g","t","h">>,
         <<"w","e","a","k","n","e","s","s">>,
         <<"a","c","h","i","e","v","e","m","e","n","t">>,
         <<"f","u","n"," ","f","a","c","t">> >>,
    closing |->
      << <<"t","h","a","n","k"," ","y","o","u">>,
         <<"t","h","a","n","k","s">>,
         <<"t","h","a","t","'","s"," ","a","l","l">>,
         <<"b","y","e">> >> ]

\* positions[key]: index of the earliest indicator of the category, -1 for None
FlowPosition(text_l, key) ==
  LET pos_list == { Find(text_l, indicators[key][i]) : i \in 1..Len(indicators[key]) } \ {-1}
  IN  IF pos_list = {} THEN -1 ELSE CHOOSE x \in pos_list : \A y \in pos_list : x <= y

\* seq: the (item, pos) pairs of the categories of the order that were found
RECURSIVE FlowSeq(_, _)
FlowSeq(text_l, order_spec) ==
  IF order_spec = << >> THEN << >>
  ELSE LET item == Head(order_spec)
           pos == IF item \in DOMAIN indicators THEN FlowPosition(text_l, item) ELSE -1
       IN  (IF pos # -1 THEN << << item, pos >> >> ELSE << >>)
           \o FlowSeq(text_l, Tail(order_spec))

\* score_flow that passes a text with fewer than 2 categories found
score_flow_Lenient(t, rubric_flow) ==
  LET correct_order == Get(Get(rubric_flow, "rules", EmptyDict), "correct_order", EmptyDict)
      order_spec == Get(correct_order, "order", << >>)
      seq == FlowSeq(Lower(t), order_spec)
      is_correct == \A i \in 1..(Len(seq) - 1) : seq[i][2] <= seq[i + 1][2]
  IN  [score |-> IF is_correct THEN R(Get(correct_order, "score", 5)) ELSE R(0),
       is_correct |-> is_correct]

score_flow(t, rubric_flow) ==
  LET correct_order == Get(Get(rubric_flow, "rules", EmptyDict), "correct_order", EmptyDict)
      order_spec == Get(correct_order, "order", << >>)
      seq == FlowSeq(Lower(t), order_spec)
      is_correct == /\ Len(seq) >= 2
                    /\ \A i \in 1..(Len(seq) - 1) : seq[i][2] <= seq[i + 1][2]
  IN  [score |-> IF is_correct THEN R(Get(correct_order, "score", 5)) ELSE R(0),
       is_correct |-> is_correct]

BucketScore(rules, bucket, default) == Get(Get(rules, bucket, EmptyDict), "score", default)

\* the bucket of the if/elif chain over wpm
SpeechRateBucket(wpm) ==
  IF RLt(R(161), wpm) THEN "too_fast"
  ELSE IF RLeq(R(141), wpm) /\ RLeq(wpm, R(160)) THEN "fast"
  ELSE IF RLeq(R(111), wpm) /\ RLeq(wpm, R(140)) THEN "ideal"
  ELSE IF RLeq(R(81), wpm) /\ RLeq(wpm, R(110)) THEN "slow"
  ELSE "too_slow"

SpeechRateDefault(bucket) ==
  CASE bucket = "too_fast" -> 2
    [] bucket = "fast" -> 6
    [] bucket = "ideal" -> 10
    [] bucket = "slow" -> 6
    [] bucket = "too_slow" -> 2

\* the guard without "duration_seconds <= 0"
NoSpeechRate_NoSign(wc, duration) ==
  \/ duration = None
  \/ duration[1] = 0
  \/ wc = 0

\* not duration_seconds or duration_seconds <= 0 or word_count == 0
NoSpeechRate(wc, duration) ==
  \/ duration = None
  \/ duration[1] = 0
  \/ duration[1] <= 0
  \/ wc = 0

score_speech_rate(wc, duration, rubric_sr) ==
  LET rules == Get(rubric_sr, "rules", EmptyDict) IN
  IF NoSpeechRate(wc, duration)
  THEN [score |-> RDiv(R(BucketScore(rules, "ideal", 10)), R(2)),
        bucket |-> "neutral", wpm |-> None]
  ELSE LET wpm == RMul(Rat(wc, duration[1]), R(60))
           bucket == SpeechRateBucket(wpm)
       IN  [score |-> R(BucketScore(rules, bucket, SpeechRateDefault(bucket))),
            bucket |-> bucket, wpm |-> Some(wpm)]

\* the bucket of the if/elif chain over the absolute filler count
FillerBucket(fc) ==
  IF fc <= 3 THEN "0-3"
  ELSE IF 4 <= fc /\ fc <= 6 THEN "4-6"
  ELSE IF 7 <= fc /\ fc <= 9 THEN "7-9"
  ELSE IF 10 <= fc /\ fc <= 12 THEN "10-12"
  ELSE "13+"

FillerDefault(bucket) ==
  CASE bucket = "0-3" -> 15
    [] bucket = "4-6" -> 12
    [] bucket = "7-9" -> 9
    [] bucket = "10-12" -> 6
    [] bucket = "13+" -> 3

\* score_filler_words with the buckets applied to rate_percent, not the count
score_filler_words_ByRate(fc, total_words, rubric_clarity) ==
  LET scoring == Get(Get(rubric_clarity, "filler_words", EmptyDict), "scoring", EmptyDict) IN
  IF total_words = 0
  THEN [score |-> R(Get(scoring, "0-3", 15)), bucket |-> "0-3", rate_percent |-> None]
  ELSE LET rate_percent == RMul(Rat(fc, total_words), R(100))
           bucket == FillerBucket(rate_percent[1] \div rate_percent[2])
       IN  [score |-> R(Get(scoring, bucket, FillerDefault(bucket))),
            bucket |-> bucket, rate_percent |-> Some(rate_percent)]

score_filler_words(fc, total_words, rubric_clarity) ==
  LET scoring == Get(Get(rubric_clarity, "filler_words", EmptyDict), "scoring", EmptyDict) IN
  IF total_words = 0
  THEN [score |-> R(Get(scoring, "0-3", 15)), bucket |-> "0-3", rate_percent |-> None]
  ELSE LET rate_percent == RMul(Rat(fc, total_words), R(100))
           bucket == FillerBucket(fc)
       IN  [score |-> R(Get(scoring, bucket, FillerDefault(bucket))),
            bucket |-> bucket, rate_percent |-> Some(rate_percent)]

-----------------------------------------------------------------------------
(* Inputs of compute_scores *)

ReferenceRubric ==
  [ content_and_structure |->
      [ weight |-> 40,
        salutation |->
          [ weight |-> 5,
            rules |->
              [ excellent |-> [ keywords |-> << <<"e","x","c","i","t","e","d"," ","t","o"," ","i","n","t","r","o","d","u","c","e">> >>,
                                score |-> 5 ],
                good |-> [ keywords |-> << <<"g","o","o","d"," ","m","o","r","n","i","n","g">>,
                                           <<"h","e","l","l","o"," ","e","v","e","r","y","o","n","e">> >>,
                           score |-> 4 ],
                normal |-> [ keywords |-> << <<"h","i">>, <<"h","e","l","l","o">> >>,
                             score |-> 2 ],
                no_salutation |-> [ score |-> 0 ] ] ],
        keyword_presence |->
          [ weight |-> 30,
            must_have |-> [ keywords |-> << <<"n","a","m","e">>, <<"a","g","e">>,
                                            <<"s","c","h","o","o","l">>, <<"f","a","m","i","l","y">> >>,
                            score_each |-> 4 ],
            good_to_have |-> [ keywords |-> << <<"g","o","a","l">>, <<"f","u","n"," ","f","a","c","t">> >>,
                               score_each |-> 2 ] ],
        flow |->
          [ rules |-> [ correct_order |-> [ order |-> FlowCategories, score |-> 5 ] ] ] ],
    speech_rate |->
      [ weight |-> 10,
        rules |-> [ too_fast |-> [ score |-> 2 ], fast |-> [ score |-> 6 ],
                    ideal |-> [ score |-> 10 ], slow |-> [ score |-> 6 ],
                    too_slow |-> [ score |-> 2 ] ] ],
    language_and_grammar |->
      [ weight |-> 20,
        grammar |-> [ weight |-> 10 ],
        vocabulary |-> [ weight |-> 10 ] ],
    clarity |->
      [ weight |-> 15,
        filler_words |-> [ scoring |-> ("0-3" :> 15 @@ "4-6" :> 12 @@ "7-9" :> 9
                                        @@ "10-12" :> 6 @@ "13+" :> 3) ] ],
    engagement |-> [ weight |-> 15 ] ]

Criteria == { "content_and_structure", "speech_rate", "language_and_grammar",
              "clarity", "engagement" }

\* a change of one rubric field: the key at path is removed (None) or set
RubricEdits ==
  { [path |-> << c >>, val |-> None] : c \in Criteria }
  \cup { [path |-> << c, "weight" >>, val |-> Some(-40)] : c \in Criteria }
  \cup { [path |-> << "content_and_structure", "salutation", "rules", "normal", "score" >>, val |-> None],
         [path |-> << "content_and_structure", "salutation", "rules", "normal", "score" >>, val |-> Some(10)],
         [path |-> << "content_and_structure", "keyword_presence", "must_have", "score_each" >>, val |-> Some(40)],
         [path |-> << "content_and_structure", "keyword_presence", "must_have", "score_each" >>, val |-> Some(-4)],
         [path |-> << "speech_rate", "rules", "ideal", "score" >>, val |-> Some(20)],
         [path |-> << "language_and_grammar", "grammar", "weight" >>, val |-> Some(5)],
         [path |-> << "clarity", "filler_words", "scoring", "0-3" >>, val |-> Some(20)] }

RECURSIVE SetPath(_, _, _)
SetPath(d, path, val) ==
  IF Len(path) = 1
  THEN IF val = None THEN Drop(d, path[1]) ELSE Put(d, path[1], val[1])
  ELSE Put(d, path[1], SetPath(Get(d, path[1], EmptyDict), Tail(path), val))

RECURSIVE ApplyEdits(_, _)
ApplyEdits(d, edits) ==
  IF edits = {} THEN d
  ELSE LET e == CHOOSE x \in edits : TRUE
       IN  ApplyEdits(SetPath(d, e.path, e.val), edits \ {e})

\* the reference rubric and the empty rubric, each with at most MaxEdits edits
RECURSIVE EditSets(_)
EditSets(n) ==
  IF n = 0 THEN { {} }
  ELSE EditSets(n - 1) \cup { es \cup { e } : es \in EditSets(n - 1), e \in RubricEdits }

Rubrics ==
  { ApplyEdits(base, edits) :
      base \in { ReferenceRubric, EmptyDict }, edits \in EditSets(MaxEdits) }

Vocabulary ==
  { <<"H","e","l","l","o">>, <<"t","h","i","s">>, <<"u","m">>, <<"a","g","e">> }

RECURSIVE WordSeqs(_)
WordSeqs(n) ==
  IF n = 0 THEN { << >> }
  ELSE WordSeqs(n - 1) \cup { Append(ws, w) : ws \in WordSeqs(n - 1), w \in Vocabulary }

\* up to MaxWords words separated by single spaces, and a blank transcript
Transcripts == { Join(ws) : ws \in WordSeqs(MaxWords) } \cup { << " " >> }

Durations == { None, Some(0), Some(1) }

SimilarityOutcomes == { None, Some(5), Some(6) }
GrammarOutcomes == { None } \cup { Some(e) : e \in 0..MaxErrors }
SentimentOutcomes == { None, Some(0), Some(5), Some(10) }

-----------------------------------------------------------------------------
(* compute_scores, one action per block of the function body *)

\* no compute_scores call is under way
Idle ==
  /\ err = "none"
  /\ transcript = << >>
  /\ duration_seconds = None
  /\ rubric = EmptyDict
  /\ text = << >>
  /\ words = << >>
  /\ word_count = 0
  /\ sentence_count = 0
  /\ filler_count = 0
  /\ total_weight = R(0)
  /\ weighted_score_sum = R(0)
  /\ components = EmptyDict
  /\ overall_score = R(0)
  /\ thrown = {}
  /\ ret = << >>

InitCompute ==
  /\ pc = "start"
  /\ err = "none"
  /\ transcript \in Transcripts
  /\ duration_seconds \in Durations
  /\ rubric \in Rubrics
  /\ text = << >>
  /\ words = << >>
  /\ word_count = 0
  /\ sentence_count = 0
  /\ filler_count = 0
  /\ total_weight = R(0)
  /\ weighted_score_sum = R(0)
  /\ components = EmptyDict
  /\ overall_score = R(0)
  /\ thrown = {}
  /\ args = [fn |-> "compute_scores"]
  /\ ret = << >>

\* speech-rate rule groups: the reference, one with a different score per
\* bucket, and one with no keys
SpeechRateRubrics ==
  { ReferenceRubric.speech_rate,
    [ weight |-> 10,
      rules |-> [ too_fast |-> [ score |-> 1 ], fast |-> [ score |-> 7 ],
                  ideal |-> [ score |-> 9 ], slow |-> [ score |-> 5 ],
                  too_slow |-> [ score |-> 3 ] ] ],
    EmptyDict }

SpeechRateDurations == { None, Some(-1), Some(0), Some(40), Some(60) }

\* clarity rule groups: the reference, one with other scores and a missing
\* bucket, and one with no keys
ClarityRubrics ==
  { ReferenceRubric.clarity,
    [ weight |-> 15,
      filler_words |-> [ scoring |-> ("0-3" :> 14 @@ "4-6" :> 11 @@ "7-9" :> 8 @@ "13+" :> 1) ] ],
    EmptyDict }

InitNormalize ==
  /\ pc = "call"
  /\ \E a \in -MaxRaw..MaxRaw, b \in -MaxRaw..MaxRaw :
       args = [fn |-> "_normalize", subscore |-> Rat(a, 2), max_score |-> Rat(b, 2)]
  /\ Idle

InitSpeechRate ==
  /\ pc = "call"
  /\ \E wc \in 0..MaxWordCount, d \in SpeechRateDurations, r \in SpeechRateRubrics :
       args = [fn |-> "score_speech_rate", word_count |-> wc, duration_seconds |-> d,
               rubric_sr |-> r]
  /\ Idle

InitFiller ==
  /\ pc = "call"
  /\ \E fc \in 0..MaxFiller, tw \in 0..MaxTotalWords, r \in ClarityRubrics :
       args = [fn |-> "score_filler_words", filler_count |-> fc, total_words |-> tw,
               rubric_clarity |-> r]
  /\ Idle

\* must-have keywords of the keyword rule groups, taken as prefixes
MustHavePool ==
  << <<"a","g","e">>, <<"h","e","l","l","o">>, <<"t","h","i","s">>,
     <<"n","a","m","e">>, <<"s","c","h","o","o","l">> >>

\* keyword rule groups: every prefix of the pool as must_have keywords, with
\* and without score_each and a good_to_have group, and one with no keys
KeywordRubrics ==
  { [ must_have |-> mh, good_to_have |-> gh ] :
      mh \in { [ keywords |-> SubSeq(MustHavePool, 1, n), score_each |-> 3 ] :
                 n \in 0..Len(MustHavePool) }
             \cup { [ keywords |-> SubSeq(MustHavePool, 1, n) ] : n \in 0..Len(MustHavePool) },
      gh \in { EmptyDict,
               [ keywords |-> << <<"u","m">>, <<"h","e","l","l","o"," ","a","g","e">> >>,
                 score_each |-> 2 ] } }
  \cup { EmptyDict }

InitKeyword ==
  /\ pc = "call"
  /\ \E t \in Transcripts, r \in KeywordRubrics, enc \in SimilarityOutcomes :
       args = [fn |-> "score_keyword_presence", words |-> get_word_count(clean_text(t)).words,
               text |-> clean_text(t), rubric_kw |-> r, enc |-> enc]
  /\ Idle

\* the texts of up to n words of vocab, separated by single spaces
RECURSIVE Phrases(_, _)
Phrases(vocab, n) ==
  IF n = 0 THEN { << >> }
  ELSE Phrases(vocab, n - 1)
       \cup { IF p = << >> THEN w ELSE p \o << " " >> \o w : p \in Phrases(vocab, n - 1), w \in vocab }

\* one indicator of each flow category, and a word that is none
FlowVocabulary ==
  { <<"H","e","l","l","o">>, <<"a","g","e">>, <<"g","o","a","l">>, <<"b","y","e">>, <<"u","m">> }

\* target orders without repeated categories: the reference order, its
\* reverse, a two-category order, one naming an unknown category, and none
FlowOrders ==
  { FlowCategories,
    << "closing", "optional_details", "basic_details", "salutation" >>,
    << "salutation", "closing" >>,
    << "closing", "greeting", "salutation" >>,
    << >> }

FlowRubrics ==
  { [ rules |-> [ correct_order |-> [ order |-> o, score |-> 3 ] ] ] : o \in FlowOrders }
  \cup { [ rules |-> [ correct_order |-> [ order |-> o ] ] ] : o \in FlowOrders }
  \cup { [ rules |-> [ correct_order |-> [ score |-> 3 ] ] ], EmptyDict }

InitFlow ==
  /\ pc = "call"
  /\ \E t \in Phrases(FlowVocabulary, MaxFlowWords), r \in FlowRubrics :
       args = [fn |-> "score_flow", text |-> t, rubric_flow |-> r]
  /\ Idle

SalutationVocabulary ==
  { <<"H","e","l","l","o">>, <<"e","v","e","r","y","o","n","e">>, <<"t","h","i","s">>, <<"u","m">> }

\* tiers whose keywords overlap: 'hello everyone' matches all three
OverlappingTiers ==
  [ excellent |-> [ keywords |-> << <<"e","v","e","r","y","o","n","e">> >>, score |-> 5 ],
    good |-> [ keywords |-> << <<"h","e","l","l","o"," ","e","v","e","r","y","o","n","e">> >>,
               score |-> 4 ],
    normal |-> [ keywords |-> << <<"u","m">>, <<"h","e","l","l","o">> >>, score |-> 2 ],
    no_salutation |-> [ score |-> 1 ] ]

\* the reference tiers, overlapping tiers, tiers with a key missing, no tiers
SalutationRubrics ==
  LET reference == ReferenceRubric.content_and_structure.salutation.rules
  IN  { [ rules |-> r ] :
          r \in { reference, OverlappingTiers,
                  Drop(reference, "no_salutation"),
                  Drop(OverlappingTiers, "excellent"),
                  Drop(OverlappingTiers, "good"),
                  Put(OverlappingTiers, "good", Drop(OverlappingTiers.good, "score")),
                  Put(OverlappingTiers, "normal", Drop(OverlappingTiers.normal, "keywords")) } }
      \cup { EmptyDict }

InitSalutation ==
  /\ pc = "call"
  /\ \E t \in Phrases(SalutationVocabulary, MaxWords), r \in SalutationRubrics :
       args = [fn |-> "score_salutation", text |-> t, rubric_salutation |-> r]
  /\ Idle

Init ==
  \/ InitCompute
  \/ InitNormalize
  \/ InitSpeechRate
  \/ InitFiller
  \/ InitKeyword
  \/ InitFlow
  \/ InitSalutation

\* a scorer called on its own
Returns(value) ==
  /\ ret' = value
  /\ pc' = "returned"
  /\ UNCHANGED << err, transcript, duration_seconds, rubric, text, words, word_count,
                  sentence_count, filler_count, total_weight, weighted_score_sum,
                  components, overall_score, thrown, args >>

CallNormalize ==
  /\ pc = "call"
  /\ args.fn = "_normalize"
  /\ Returns(_normalize(args.subscore, args.max_score))

CallSpeechRate ==
  /\ pc = "call"
  /\ args.fn = "score_speech_rate"
  /\ Returns(score_speech_rate(args.word_count, args.duration_seconds, args.rubric_sr))

CallFiller ==
  /\ pc = "call"
  /\ args.fn = "score_filler_words"
  /\ Returns(score_filler_words(args.filler_count, args.total_words, args.rubric_clarity))

CallKeyword ==
  /\ pc = "call"
  /\ args.fn = "score_keyword_presence"
  /\ Returns(score_keyword_presence(args.words, args.text, args.rubric_kw, args.enc))

CallFlow ==
  /\ pc = "call"
  /\ args.fn = "score_flow"
  /\ Returns(score_flow(args.text, args.rubric_flow))

CallSalutation ==
  /\ pc = "call"
  /\ args.fn = "score_salutation"
  /\ Returns(score_salutation(args.text, args.rubric_salutation))

Preprocess ==
  /\ pc = "start"
  /\ text' = clean_text(transcript)
  /\ words' = get_word_count(text').words
  /\ word_count' = get_word_count(text').count
  /\ sentence_count' = get_sentence_count(text')
  /\ filler_count' = count_filler_words(words')
  /\ pc' = "content"
  /\ UNCHANGED << err, transcript, duration_seconds, rubric, total_weight,
                  weighted_score_sum, components, overall_score, thrown, args, ret >>

\* the report entry of a criterion made of sub-criteria
Composite(weight, subscores, raw_sum, max_sum) ==
  LET fraction == _normalize(raw_sum, max_sum)
      contribution == RMul(fraction, R(weight))
  IN  [ weight |-> weight, subscores |-> subscores, raw_sum |-> raw_sum,
        max_sum |-> max_sum, fraction |-> Round(fraction, 4),
        contribution |-> Round(contribution, 3), exact |-> contribution ]

\* the report entry of a criterion with a single raw score
Single(weight, raw, max) ==
  LET fraction == _normalize(raw, max)
      contribution == RMul(fraction, R(weight))
  IN  [ weight |-> weight, raw |-> raw, max |-> max, fraction |-> Round(fraction, 4),
        contribution |-> Round(contribution, 3), exact |-> contribution ]

\* content_and_structure: salutation, keyword presence and flow
ContentEntry(cs, sal, kw, flow) ==
  LET kw_max == R(Get(Get(cs, "keyword_presence", EmptyDict), "weight", 30))
      kw_raw_clipped == RMin(kw.raw_score, kw_max)
      flow_max == R(Get(Get(Get(Get(cs, "flow", EmptyDict), "rules", EmptyDict),
                            "correct_order", EmptyDict), "score", 5))
      sal_max == R(Get(Get(cs, "salutation", EmptyDict), "weight", 5))
      cs_subscores ==
        [ salutation |-> [ raw |-> sal.score, max |-> sal_max, feedback |-> sal.tier ],
          keyword_presence |-> [ raw |-> kw_raw_clipped, max |-> kw_max, found |-> kw.found ],
          flow |-> [ raw |-> flow.score, max |-> flow_max, feedback |-> flow.is_correct ] ]
      cs_raw_sum == RAdd(RAdd(sal.score, kw_raw_clipped), flow.score)
      cs_max_sum == RAdd(RAdd(sal_max, kw_max), flow_max)
  IN  Composite(Get(cs, "weight", 0), cs_subscores, cs_raw_sum, cs_max_sum)

ContentAndStructure ==
  /\ pc = "content"
  /\ \E cs \in { Get(rubric, "content_and_structure", EmptyDict) } :
     \E sal \in { score_salutation(transcript, Get(cs, "salutation", EmptyDict)) } :
       /\ total_weight' = RAdd(total_weight, R(Get(cs, "weight", 0)))
       /\ IF sal.err # "none"
          THEN /\ pc' = "error"
               /\ err' = sal.err
               /\ UNCHANGED << weighted_score_sum, components, thrown >>
          ELSE \E enc \in SimilarityOutcomes :
               \E kw \in { score_keyword_presence(words, text, Get(cs, "keyword_presence", EmptyDict), enc) } :
               \E flow \in { score_flow(text, Get(cs, "flow", EmptyDict)) } :
               \E entry \in { ContentEntry(cs, sal, kw, flow) } :
                 /\ weighted_score_sum' = RAdd(weighted_score_sum, entry.exact)
                 /\ components' = Put(components, "content_and_structure", entry)
                 /\ thrown' = IF kw.fallback /\ enc = None
                              THEN thrown \cup { "semantic" } ELSE thrown
                 /\ pc' = "speech"
                 /\ err' = err
  /\ UNCHANGED << transcript, duration_seconds, rubric, text, words, word_count,
                  sentence_count, filler_count, overall_score, args, ret >>

SpeechRate ==
  /\ pc = "speech"
  /\ \E sr \in { Get(rubric, "speech_rate", EmptyDict) } :
     \E got \in { score_speech_rate(word_count, duration_seconds, sr) } :
     \E entry \in { Single(Get(sr, "weight", 0), got.score, R(10)) } :
       /\ total_weight' = RAdd(total_weight, R(entry.weight))
       /\ weighted_score_sum' = RAdd(weighted_score_sum, entry.exact)
       /\ components' = Put(components, "speech_rate", entry @@ [ feedback |-> got.bucket ])
  /\ pc' = "language"
  /\ UNCHANGED << err, transcript, duration_seconds, rubric, text, words, word_count,
                  sentence_count, filler_count, overall_score, thrown, args, ret >>

\* language_and_grammar: grammar and vocabulary
LanguageEntry(lang, gram, vocab) ==
  LET gram_max == R(Get(Get(lang, "grammar", EmptyDict), "weight", 10))
      vocab_max == R(Get(Get(lang, "vocabulary", EmptyDict), "weight", 10))
      lang_subscores ==
        [ grammar |-> [ raw |-> R(gram.score), max |-> gram_max, errors |-> gram.errors ],
          vocabulary |-> [ raw |-> R(vocab.score), max |-> vocab_max,
                           ttr |-> Round(vocab.ttr, 3) ] ]
      lang_raw_sum == RAdd(R(gram.score), R(vocab.score))
      lang_max_sum == RAdd(gram_max, vocab_max)
  IN  Composite(Get(lang, "weight", 0), lang_subscores, lang_raw_sum, lang_max_sum)

LanguageAndGrammar ==
  /\ pc = "language"
  /\ \E check \in GrammarOutcomes :
     \E lang \in { Get(rubric, "language_and_grammar", EmptyDict) } :
     \E gram \in { grammar_score(check, word_count) } :
       /\ total_weight' = RAdd(total_weight, R(Get(lang, "weight", 0)))
       /\ IF gram.err # "none"
          THEN /\ pc' = "error"
               /\ err' = gram.err
               /\ thrown' = thrown \cup { "grammar" }
               /\ UNCHANGED << weighted_score_sum, components >>
          ELSE \E vocab \in { vocabulary_score(words) } :
               \E entry \in { LanguageEntry(lang, gram, vocab) } :
                 /\ weighted_score_sum' = RAdd(weighted_score_sum, entry.exact)
                 /\ components' = Put(components, "language_and_grammar", entry)
                 /\ pc' = "clarity"
                 /\ UNCHANGED << err, thrown >>
  /\ UNCHANGED << transcript, duration_seconds, rubric, text, words, word_count,
                  sentence_count, filler_count, overall_score, args, ret >>

Clarity ==
  /\ pc = "clarity"
  /\ \E clarity \in { Get(rubric, "clarity", EmptyDict) } :
     \E got \in { score_filler_words(filler_count, word_count, clarity) } :
     \E entry \in { Single(Get(clarity, "weight", 0), got.score, R(15)) } :
       /\ total_weight' = RAdd(total_weight, R(entry.weight))
       /\ weighted_score_sum' = RAdd(weighted_score_sum, entry.exact)
       /\ components' = Put(components, "clarity",
                            entry @@ [ feedback |-> got.bucket, filler_count |-> filler_count ])
  /\ pc' = "engagement"
  /\ UNCHANGED << err, transcript, duration_seconds, rubric, text, words, word_count,
                  sentence_count, filler_count, overall_score, thrown, args, ret >>

Engagement ==
  /\ pc = "engagement"
  /\ \E pos \in SentimentOutcomes :
     \E engagement \in { Get(rubric, "engagement", EmptyDict) } :
     \E sent \in { sentiment_score(pos) } :
       /\ total_weight' = RAdd(total_weight, R(Get(engagement, "weight", 0)))
       /\ IF sent.err # "none"
          THEN /\ pc' = "error"
               /\ err' = sent.err
               /\ thrown' = thrown \cup { "sentiment" }
               /\ UNCHANGED << weighted_score_sum, components >>
          ELSE \E entry \in { Single(Get(engagement, "weight", 0), R(sent.score), R(15)) } :
                 /\ weighted_score_sum' = RAdd(weighted_score_sum, entry.exact)
                 /\ components' = Put(components, "engagement",
                                      entry @@ [ feedback |-> sent.polarity ])
                 /\ pc' = "final"
                 /\ UNCHANGED << err, thrown >>
  /\ UNCHANGED << transcript, duration_seconds, rubric, text, words, word_count,
                  sentence_count, filler_count, overall_score, args, ret >>

\* the final normalisation taking the weights to sum to 100
OverallPct_Hundred(sum, weight) ==
  IF RLeq(weight, R(0)) THEN R(0)
  ELSE Round(sum, 2)

\* the final normalisation of weighted_score_sum by total_weight
OverallPct(sum, weight) ==
  IF RLeq(weight, R(0)) THEN R(0)
  ELSE Round(RMul(RDiv(sum, weight), R(100)), 2)

Finalize ==
  /\ pc = "final"
  /\ overall_score' = OverallPct(weighted_score_sum, total_weight)
  /\ pc' = "done"
  /\ UNCHANGED << err, transcript, duration_seconds, rubric, text, words, word_count,
                  sentence_count, filler_count, total_weight, weighted_score_sum,
                  components, thrown, args, ret >>

Next ==
  \/ Preprocess
  \/ ContentAndStructure
  \/ SpeechRate
  \/ LanguageAndGrammar
  \/ Clarity
  \/ Engagement
  \/ Finalize
  \/ CallNormalize
  \/ CallSpeechRate
  \/ CallFiller
  \/ CallKeyword
  \/ CallFlow
  \/ CallSalutation

Spec == Init /\ [][Next]_vars

-----------------------------------------------------------------------------
(* Properties *)

InRange(x, lo, hi) == RLeq(lo, x) /\ RLeq(x, hi)

\* the weight the rubric gives a top-level criterion, 0 when it has none
RubricWeight(c) == Get(Get(rubric, c, EmptyDict), "weight", 0)

RubricTotalWeight ==
  RubricWeight("content_and_structure") + RubricWeight("speech_rate")
  + RubricWeight("language_and_grammar") + RubricWeight("clarity")
  + RubricWeight("engagement")

\* C1: whenever the five weights of the rubric sum to more than 0, the
\* overall_score that compute_scores returns lies in [0, 100].
OverallScoreInRange ==
  (pc = "done" /\ RubricTotalWeight > 0) => InRange(overall_score, R(0), R(100))

\* the direct call of score_speech_rate has returned for a positive word
\* count and duration at exactly w words per minute
ReturnedAtWpm(w) ==
  /\ pc = "returned"
  /\ args.fn = "score_speech_rate"
  /\ args.word_count > 0
  /\ args.duration_seconds # None
  /\ args.duration_seconds[1] > 0
  /\ args.word_count * 60 = w * args.duration_seconds[1]

\* the score the rubric configures for a speech-rate bucket
ConfiguredRate(rubric_sr, bucket) ==
  R(Get(Get(Get(rubric_sr, "rules", EmptyDict), bucket, EmptyDict), "score",
        SpeechRateDefault(bucket)))

\* C2: 140 WPM is scored as 'ideal', 141 WPM as 'fast' and 161 WPM as
\* 'too_fast', each with the score the rubric configures for that bucket.
SpeechRateBoundaries ==
  /\ ReturnedAtWpm(140) =>
       ret.bucket = "ideal" /\ ret.score = ConfiguredRate(args.rubric_sr, "ideal")
  /\ ReturnedAtWpm(141) =>
       ret.bucket = "fast" /\ ret.score = ConfiguredRate(args.rubric_sr, "fast")
  /\ ReturnedAtWpm(161) =>
       ret.bucket = "too_fast" /\ ret.score = ConfiguredRate(args.rubric_sr, "too_fast")

\* the (raw, max) pairs that have entered aggregation so far
RawMaxPairs ==
  (IF Has(components, "content_and_structure")
   THEN { << components.content_and_structure.subscores[k].raw,
             components.content_and_structure.subscores[k].max >> :
            k \in { "salutation", "keyword_presence", "flow" } }
   ELSE {})
  \cup
  (IF Has(components, "language_and_grammar")
   THEN { << components.language_and_grammar.subscores[k].raw,
             components.language_and_grammar.subscores[k].max >> :
            k \in { "grammar", "vocabulary" } }
   ELSE {})
  \cup
  { << components[c].raw, components[c].max >> :
      c \in DOMAIN components \cap { "speech_rate", "clarity", "engagement" } }

\* C3: every raw score that enters aggregation lies between 0 and the
\* maximum of its own (sub-)criterion.
RawScoresWithinMax ==
  \A p \in RawMaxPairs : InRange(p[1], R(0), p[2])

\* C4: a rubric with keys missing at any level never makes compute_scores
\* raise; the missing values are replaced by defaults.
PartialRubricNeverRaises ==
  err # "KeyError"

\* C5: a metric provider that throws does not abort compute_scores.
ProviderFailureContained ==
  thrown # {} => pc # "error"

\* the speech-rate fallback applies to this word count and duration
NoRate(wc, duration) == duration = None \/ duration[1] <= 0 \/ wc = 0

\* half of the 'ideal' score of the rule group, 10 when it configures none
HalfIdeal(rubric_sr) ==
  RDiv(R(Get(Get(Get(rubric_sr, "rules", EmptyDict), "ideal", EmptyDict), "score", 10)), R(2))

\* C6: with a missing, zero or negative duration, or no words,
\* score_speech_rate computes no WPM and returns half of the rubric's
\* 'ideal' score (5 when the rubric configures none), in a direct call and
\* inside compute_scores.
NeutralSpeechRate ==
  /\ ( /\ pc = "returned"
       /\ args.fn = "score_speech_rate"
       /\ NoRate(args.word_count, args.duration_seconds) )
     => ( /\ ret.bucket = "neutral"
          /\ ret.wpm = None
          /\ ret.score = HalfIdeal(args.rubric_sr) )
  /\ ( /\ Has(components, "speech_rate")
       /\ NoRate(word_count, duration_seconds) )
     => ( /\ components.speech_rate.feedback = "neutral"
          /\ components.speech_rate.raw = HalfIdeal(Get(rubric, "speech_rate", EmptyDict)) )

NeutralSpeechRateWitness ==
  /\ pc = "returned"
  /\ args.fn = "score_speech_rate"
  /\ args.duration_seconds = Some(-1)
  /\ args.word_count = 120
  /\ ret.score = Rat(9, 2)

\* C7: for a transcript that is empty after trimming compute_scores counts no
\* words, sentences or fillers, every scorer returns its zero-word fallback
\* and the call completes without an error.
EmptyTranscriptFallbacks ==
  (args.fn = "compute_scores" /\ Strip(transcript) = << >>) =>
    /\ pc # "error"
    /\ pc # "start" => word_count = 0 /\ sentence_count = 0 /\ filler_count = 0
    /\ Has(components, "speech_rate") =>
         components.speech_rate.raw = HalfIdeal(Get(rubric, "speech_rate", EmptyDict))
    /\ Has(components, "language_and_grammar") =>
         /\ components.language_and_grammar.subscores.grammar.raw = R(10)
         /\ components.language_and_grammar.subscores.grammar.errors = 0
         /\ components.language_and_grammar.subscores.vocabulary.raw = R(10)
         /\ components.language_and_grammar.subscores.vocabulary.ttr = R(1)
    /\ Has(components, "clarity") =>
         /\ components.clarity.filler_count = 0
         /\ components.clarity.raw =
              R(Get(Get(Get(Get(rubric, "clarity", EmptyDict), "filler_words", EmptyDict),
                        "scoring", EmptyDict), "0-3", 15))

\* raw / max clamped to [0, 1], and 0 when max <= 0
Clamp01(raw, max) ==
  IF RLeq(max, R(0)) THEN R(0)
  ELSE IF RLeq(raw, R(0)) THEN R(0)
  ELSE IF RLeq(max, raw) THEN R(1)
  ELSE RDiv(raw, max)

\* the fraction of a reported criterion: of its raw_sum and max_sum when it
\* has sub-criteria, of its raw and max otherwise
CriterionFraction(c) ==
  IF Has(components[c], "subscores")
  THEN Clamp01(components[c].raw_sum, components[c].max_sum)
  ELSE Clamp01(components[c].raw, components[c].max)

Contribution(c) == RMul(R(RubricWeight(c)), CriterionFraction(c))

WeightedFractions ==
  RAdd(RAdd(RAdd(RAdd(Contribution("content_and_structure"), Contribution("speech_rate")),
                 Contribution("language_and_grammar")), Contribution("clarity")),
       Contribution("engagement"))

WeightedAverage ==
  Round(RMul(R(100), RDiv(WeightedFractions, R(RubricTotalWeight))), 2)

\* C8 as stated: overall_score is the weighted average of the five criterion
\* fractions, times 100 and rounded to 2 decimals, and 0 when the total
\* weight is 0.
OverallScoreFormula ==
  pc = "done" =>
    overall_score = IF RubricTotalWeight = 0 THEN R(0) ELSE WeightedAverage

\* C8 amended: overall_score is the weighted average of the five criterion
\* fractions, times 100 and rounded to 2 decimals, and 0 when the total
\* weight is 0 or negative.
OverallScoreFormulaAmended ==
  pc = "done" =>
    overall_score = IF RubricTotalWeight <= 0 THEN R(0) ELSE WeightedAverage

OverallScoreFormulaWitness ==
  /\ pc = "done"
  /\ RubricTotalWeight > 0
  /\ ~ Has(rubric, "clarity")
  /\ Has(rubric, "engagement")
  /\ overall_score \notin { R(0), R(100) }

\* C9: _normalize returns 0 when max <= 0 and otherwise raw / max clamped to
\* [0, 1]; every fraction in the report lies in [0, 1].
NormalizeClamped ==
  /\ (pc = "returned" /\ args.fn = "_normalize") =>
       /\ RLeq(args.max_score, R(0)) => ret = R(0)
       /\ RLt(R(0), args.max_score) =>
            /\ RLeq(args.subscore, R(0)) => ret = R(0)
            /\ RLeq(args.max_score, args.subscore) => ret = R(1)
            /\ (RLt(R(0), args.subscore) /\ RLt(args.subscore, args.max_score)) =>
                 RMul(ret, args.max_score) = args.subscore
       /\ InRange(ret, R(0), R(1))
  /\ \A c \in DOMAIN components : InRange(components[c].fraction, R(0), R(1))

NormalizeClampedWitness ==
  /\ pc = "returned"
  /\ args.fn = "_normalize"
  /\ RLt(args.subscore, R(0))
  /\ RLt(R(0), args.max_score)
  /\ ret = R(0)

\* the bucket the rubric names for an absolute filler count
CountBucket(fc) ==
  CASE fc \in 0..3 -> "0-3"
    [] fc \in 4..6 -> "4-6"
    [] fc \in 7..9 -> "7-9"
    [] fc \in 10..12 -> "10-12"
    [] fc >= 13 -> "13+"

TooSlowOnlyBelow81 ==
  ( /\ pc = "returned"
    /\ args.fn = "score_speech_rate"
    /\ args.word_count > 0
    /\ args.duration_seconds # None
    /\ args.duration_seconds[1] > 0 )
  => ( /\ ret.bucket = "too_slow" =>
            args.word_count * 60 < 81 * args.duration_seconds[1]
       /\ args.word_count * 60 >= 81 * args.duration_seconds[1] =>
            ret.bucket \in { "slow", "ideal", "fast", "too_fast" } )

\* the number of entries of kws that equal tok
Occurrences(kws, tok) == Cardinality({ i \in 1..Len(kws) : kws[i] = tok })

\* the parts of C12 for a returned direct call of score_keyword_presence,
\* given whether the fallback is required to have run
KeywordFallbackRule(runs(_, _)) ==
  LET must_have == Get(args.rubric_kw, "must_have", EmptyDict)
      good_to_have == Get(args.rubric_kw, "good_to_have", EmptyDict)
      mw == Get(must_have, "keywords", << >>)
      gw == Get(good_to_have, "keywords", << >>)
      hit(kw) == KeywordMatches(kw, args.words, args.text)
      n_must == Cardinality({ i \in 1..Len(mw) : hit(mw[i]) })
      n_good == Cardinality({ i \in 1..Len(gw) : hit(gw[i]) })
      plain == R(n_must * Get(must_have, "score_each", 4)
                 + n_good * Get(good_to_have, "score_each", 2))
      bonus == Rat(Get(must_have, "score_each", 4) * Len(mw), 2)
      ran == runs(n_must + n_good, Len(mw))
      high == args.enc # None /\ Len(mw) + Len(gw) > 0 /\ args.enc[1] >= 6
      token == << "semantic-match" >>
  IN  /\ ret.fallback = ran
      /\ (ran /\ high) =>
           /\ ret.raw_score = RAdd(plain, bonus)
           /\ Occurrences(ret.found, token) = 1
           /\ ret.found[Len(ret.found)] = token
      /\ ~ (ran /\ high) =>
           /\ ret.raw_score = plain
           /\ Occurrences(ret.found, token) = 0

KeywordReturned == pc = "returned" /\ args.fn = "score_keyword_presence"

\* matched < max(1, size / 2) with the exact quotient
FewerThanHalf(matched, size) == 2 * matched < (IF size > 2 THEN size ELSE 2)

\* matched < max(1, size // 2) with the quotient rounded down
FewerThanHalfFloor(matched, size) ==
  matched < (IF size \div 2 > 1 THEN size \div 2 ELSE 1)

\* C12 as stated: the similarity fallback runs exactly when fewer than
\* max(1, |must_have| / 2) keywords matched; when it runs with a similarity
\* of at least 0.6 the bonus 0.5 * score_each * |must_have| is added once and
\* 'semantic-match' is appended; otherwise the raw score is the plain sum and
\* 'semantic-match' is absent.
KeywordFallback ==
  KeywordReturned => KeywordFallbackRule(FewerThanHalf)

\* C12 amended: the same with the threshold max(1, floor(|must_have| / 2)).
KeywordFallbackFloor ==
  KeywordReturned => KeywordFallbackRule(FewerThanHalfFloor)

KeywordFallbackWitness ==
  /\ KeywordReturned
  /\ Len(Get(Get(args.rubric_kw, "must_have", EmptyDict), "keywords", << >>)) = 5
  /\ args.enc = Some(6)
  /\ ret.fallback
  /\ Len(ret.found) = 2
  /\ ret.raw_score = Rat(21, 2)

FlowReturned == pc = "returned" /\ args.fn = "score_flow"

\* the rubric's correct_order entry of the call
FlowCorrectOrder ==
  Get(Get(args.rubric_flow, "rules", EmptyDict), "correct_order", EmptyDict)

\* the places of the target order whose category has an indicator in the text
FlowFound ==
  LET order == Get(FlowCorrectOrder, "order", << >>)
      txt == Lower(args.text)
  IN  { i \in 1..Len(order) :
          /\ order[i] \in DOMAIN indicators
          /\ \E k \in 1..Len(indicators[order[i]]) : In(indicators[order[i]][k], txt) }

\* every found pair, adjacent or not, has its earliest indicators in target order
FlowInOrder ==
  LET order == Get(FlowCorrectOrder, "order", << >>)
      txt == Lower(args.text)
  IN  \A i, j \in FlowFound :
        i < j => FlowPosition(txt, order[i]) <= FlowPosition(txt, order[j])

\* C13: score_flow returns the configured correct_order score exactly when at
\* least 2 categories of the target order are found in the text and their
\* earliest-indicator positions are non-decreasing in target order, and 0 in
\* every other case.
FlowAllOrNothing ==
  FlowReturned =>
    /\ ret.score = IF Cardinality(FlowFound) >= 2 /\ FlowInOrder
                   THEN R(Get(FlowCorrectOrder, "score", 5))
                   ELSE R(0)
    /\ ret.score \in { R(0), R(Get(FlowCorrectOrder, "score", 5)) }

FlowAllOrNothingWitness ==
  /\ FlowReturned
  /\ Get(FlowCorrectOrder, "order", << >>) = FlowCategories
  /\ Cardinality(FlowFound) = 2
  /\ FlowInOrder
  /\ ret.score = R(3)

SalutationReturned == pc = "returned" /\ args.fn = "score_salutation"

SalutationRules == Get(args.rubric_salutation, "rules", EmptyDict)

\* the tier has a keyword that is a substring of the lowercased text
TierMatches(tier) ==
  /\ Has(SalutationRules, tier)
  /\ Has(SalutationRules[tier], "keywords")
  /\ \E k \in 1..Len(SalutationRules[tier].keywords) :
       In(SalutationRules[tier].keywords[k], Lower(args.text))

SalutationTiers == << "excellent", "good", "normal" >>

\* the places in SalutationTiers of the tiers that match
MatchingTiers == { i \in 1..Len(SalutationTiers) : TierMatches(SalutationTiers[i]) }

\* C14: score_salutation credits exactly one tier: the first of excellent,
\* good, normal with a keyword in the lowercased text, and no_salutation
\* (default 0) when none matches; the score it returns is that tier's score
\* alone.
SalutationFirstTier ==
  SalutationReturned =>
    IF MatchingTiers = {}
    THEN /\ ret.tier = "no_salutation"
         /\ ret.err = "none"
         /\ ret.score = R(Get(Get(SalutationRules, "no_salutation", EmptyDict), "score", 0))
    ELSE \E i \in MatchingTiers :
           /\ \A j \in MatchingTiers : i <= j
           /\ ret.tier = SalutationTiers[i]
           /\ ret.err = "none" => ret.score = R(SalutationRules[SalutationTiers[i]].score)

SalutationFirstTierWitness ==
  /\ SalutationReturned
  /\ MatchingTiers = { 2, 3 }
  /\ ret.err = "none"
  /\ ret.tier = "good"
  /\ ret.score = R(4)

=============================================================================
